---- MODULE Spec2Model ----
(***************************************************************************)
(* LawVault: encrypted contract storage with mutual approval.              *)
(*                                                                         *)
(* The ledger part models contracts/LawVault.sol (the Solidity source is   *)
(* the second half of src/hardhat.config.deploy.ts): the records, the      *)
(* per-identity id lists, the counter, the FHE access-control list and the *)
(* event log (kept per indexed contractId), with one action per external   *)
(* function. A reverted call leaves the ledger as it was; its revert       *)
(* reason is kept in lastOp, the receipt of the most recent call.          *)
(*                                                                         *)
(* The application part models the React components CreateContract         *)
(* (src/unnamed/part_001) and ContractList, one instance per browser, each *)
(* browser with its own localStorage, and the text cipher and fingerprint  *)
(* of lib/crypto.ts (src/unnamed/part_002).                                *)
(***************************************************************************)
EXTENDS Integers, Sequences, FiniteSets, TLC

\* ------------------------------------------------------------------ bounds
MaxContracts == 2
MaxTime == 2
\* The longest text (in UTF-16 code units) the fingerprint is computed of.
MaxTextLen == 5

\* ------------------------------------------------------- identities, inputs
ZeroAddr == 0
Users == {1, 2, 3}
\* The callers and counterparties createContract is explored with.
Initiators == {1}
Counterparties == {ZeroAddr, 1, 2}
VaultAddr == 4
Addrs == {ZeroAddr} \cup Users
Ids == 0..(MaxContracts - 1)
Titles == {"", "NDA"}

\* ------------------------------------------------- calculateTextHash
\* A text is the sequence of its UTF-16 code units (charCodeAt).
NoText == <<>>
Texts == {<<65, 97>>, <<65, 98>>}

\* A 32-bit word as two 16-bit halves, so that no intermediate value leaves
\* the integers the checker computes with.
Word(hi, lo) == [hi |-> hi % 65536, lo |-> lo % 65536]

\* hash << 5
Shl5(w) == Word(w.hi * 32 + ((w.lo * 32) \div 65536), w.lo * 32)

\* Variant: (hash << 5) + hash.
HashStep_33(w, char) ==
    LET s == Shl5(w)
        lo == s.lo + w.lo + char
    IN  Word(s.hi + w.hi + (lo \div 65536), lo)

\* ((hash << 5) - hash) + char, then hash & hash: the sum wrapped to 32 bits.
HashStep(w, char) ==
    LET s == Shl5(w)
        lo == s.lo - w.lo + char
    IN  Word(s.hi - w.hi + (lo \div 65536), lo)

RECURSIVE HashFold(_, _)
HashFold(text, w) ==
    IF text = <<>> THEN w ELSE HashFold(Tail(text), HashStep(w, Head(text)))

\* Variant: Math.abs(hash) without the remainder (the value 2^31 is shown
\* as the largest integer).
AbsMod_noMod(w) ==
    LET neg == w.hi >= 32768
        m == IF neg
             THEN Word(65535 - w.hi + (IF w.lo = 0 THEN 1 ELSE 0),
                       65536 - w.lo)
             ELSE w
    IN  IF m.hi >= 32768 THEN 2147483647 ELSE m.hi * 65536 + m.lo

\* Math.abs(hash) % 2147483647 of the signed reading of the word.
AbsMod(w) ==
    LET neg == w.hi >= 32768
        m == IF neg
             THEN Word(65535 - w.hi + (IF w.lo = 0 THEN 1 ELSE 0),
                       65536 - w.lo)
             ELSE w
    IN  IF m.hi >= 32768 THEN 1
        ELSE IF m.hi = 32767 /\ m.lo = 65535 THEN 0
        ELSE m.hi * 65536 + m.lo

calculateTextHash(text) == AbsMod(HashFold(text, Word(0, 0)))

\* The code units the fingerprint is explored with: small values, values
\* that fill the upper bits, the largest unit and the two halves of the
\* surrogate pair of U+1F600.
HashUnits == {2, 9, 12, 30, 2325, 65535, 55357, 56832}
HashTexts == UNION {[1..n -> HashUnits] : n \in 0..MaxTextLen}

\* ------------------------------------------------------------ ciphertexts
\* An euint32 handle: an opaque ciphertext id; value is the plaintext the FHE
\* capability releases to a grantee. The zero handle is the default of an
\* unset storage slot.
NoHandle == [nonce |-> 0, value |-> 0]
Nonces == {1}
Handles == {[nonce |-> n, value |-> calculateTextHash(t)] :
               n \in Nonces, t \in Texts}

PendingClientApproval == 0
PendingLawyerFinalConfirmation == 1
Completed == 2

Browsers == {1, 2}

VARIABLES contracts, clientContracts, lawyerContracts, totalContracts,
          acl, events, now, lastOp,
          localStorage, createForm, list, prevTotalContractsRef, docOf,
          account

vars == <<contracts, clientContracts, lawyerContracts, totalContracts,
          acl, events, now, lastOp,
          localStorage, createForm, list, prevTotalContractsRef, docOf,
          account>>

app == <<localStorage, createForm, list, prevTotalContractsRef, docOf,
         account>>

ledger == <<contracts, clientContracts, lawyerContracts, totalContracts,
            acl, events>>

\* The value of a storage slot of `contracts` that was never written.
EmptyContract ==
    [id |-> 0, title |-> "", encryptedContent |-> NoHandle,
     lawyer |-> ZeroAddr, client |-> ZeroAddr,
     status |-> PendingClientApproval, createdAt |-> 0,
     clientApprovedAt |-> 0, lawyerConfirmedAt |-> 0, exists |-> FALSE]

\* The receipt of a call: the function, its outcome ("ok" or the reason of
\* the failure) and what it returned; for a decrypt request made in a
\* browser also the browser and the text put on display.
NoOp ==
    [op |-> "none", result |-> "none", retId |-> 0, retCt |-> NoHandle,
     browser |-> 0, text |-> NoText]

Receipt(op, result) == [NoOp EXCEPT !.op = op, !.result = result]

\* ------------------------------------------------------------ lib/crypto.ts
\* A byte string is a sequence of numbers in 0..255.
SaltLen == 16
IvLen == 12
\* AES-GCM appends its authentication tag, 128 bits when no tagLength is
\* given, to the ciphertext.
TagLen == 16

\* The texts the cipher is explored with beyond those of the forms: one,
\* two, three and four bytes of UTF-8, an unpaired surrogate, and a byte
\* order mark at the start and inside.
CryptoTexts == {<<65>>, <<233, 65>>, <<8364>>, <<55357, 56832>>, <<55357>>,
                <<65279, 65>>, <<65, 65279>>}

\* crypto.getRandomValues: the values the model draws.
Salts == {[k \in 1..SaltLen |-> 1]}
Ivs == {[k \in 1..IvLen |-> 1]}

RECURSIVE SumFrom(_, _)
SumFrom(bytes, k) ==
    IF k > Len(bytes) THEN 0 ELSE bytes[k] + SumFrom(bytes, k + 1)

Sum(bytes) == SumFrom(bytes, 1)

\* Uint8Array.prototype.slice(from, to), both clamped to the length.
slice(bytes, from, to) ==
    SubSeq(bytes, from + 1, IF to < Len(bytes) THEN to ELSE Len(bytes))

\* The characters of a JavaScript string: a high surrogate followed by a low
\* one is one character of a supplementary plane, every other code unit is a
\* character by itself.
RECURSIVE codePoints(_)
codePoints(text) ==
    IF text = <<>> THEN <<>>
    ELSE IF /\ Len(text) >= 2
            /\ text[1] \in 55296..56319
            /\ text[2] \in 56320..57343
         THEN <<65536 + (text[1] - 55296) * 1024 + (text[2] - 56320)>>
                  \o codePoints(Tail(Tail(text)))
         ELSE <<text[1]>> \o codePoints(Tail(text))

\* The UTF-8 bytes of one scalar value.
utf8(c) ==
    IF c < 128 THEN <<c>>
    ELSE IF c < 2048 THEN <<192 + (c \div 64), 128 + (c % 64)>>
    ELSE IF c < 65536
         THEN <<224 + (c \div 4096), 128 + ((c \div 64) % 64), 128 + (c % 64)>>
    ELSE <<240 + (c \div 262144), 128 + ((c \div 4096) % 64),
           128 + ((c \div 64) % 64), 128 + (c % 64)>>

\* new TextEncoder().encode(text): the string is read as scalar values, an
\* unpaired surrogate as U+FFFD, and written as UTF-8.
RECURSIVE encodeAll(_)
encodeAll(cs) ==
    IF cs = <<>> THEN <<>>
    ELSE utf8(IF Head(cs) \in 55296..57343 THEN 65533 ELSE Head(cs))
             \o encodeAll(Tail(cs))

TextEncode(text) == encodeAll(codePoints(text))

\* The scalar values of a UTF-8 byte string; a byte that starts no
\* well-formed sequence is read as U+FFFD.
RECURSIVE decodeAll(_)
decodeAll(bytes) ==
    IF bytes = <<>> THEN <<>>
    ELSE LET n == Len(bytes)
             b == bytes[1]
             cont(k) == k <= n /\ bytes[k] \in 128..191
             rest(k) == decodeAll(SubSeq(bytes, k, n))
             c2 == (b - 192) * 64 + (bytes[2] - 128)
             c3 == (b - 224) * 4096 + (bytes[2] - 128) * 64 + (bytes[3] - 128)
             c4 == (b - 240) * 262144 + (bytes[2] - 128) * 4096
                       + (bytes[3] - 128) * 64 + (bytes[4] - 128)
         IN  IF b < 128 THEN <<b>> \o rest(2)
             ELSE IF b \in 194..223 /\ cont(2) THEN <<c2>> \o rest(3)
             ELSE IF /\ b \in 224..239 /\ cont(2) /\ cont(3)
                     /\ c3 >= 2048 /\ c3 \notin 55296..57343
                  THEN <<c3>> \o rest(4)
             ELSE IF /\ b \in 240..244 /\ cont(2) /\ cont(3) /\ cont(4)
                     /\ c4 \in 65536..1114111
                  THEN <<c4>> \o rest(5)
             ELSE <<65533>> \o rest(2)

\* The UTF-16 code units of a sequence of scalar values.
RECURSIVE codeUnits(_)
codeUnits(cs) ==
    IF cs = <<>> THEN <<>>
    ELSE (IF Head(cs) < 65536 THEN <<Head(cs)>>
          ELSE <<55296 + ((Head(cs) - 65536) \div 1024),
                 56320 + ((Head(cs) - 65536) % 1024)>>)
             \o codeUnits(Tail(cs))

\* new TextDecoder().decode(bytes): UTF-8, and with the default ignoreBOM of
\* false a byte order mark U+FEFF at the start is dropped.
TextDecode(bytes) ==
    LET cs == decodeAll(bytes)
    IN  codeUnits(IF cs # <<>> /\ cs[1] = 65279 THEN Tail(cs) ELSE cs)

\* A base64 string: whole groups of four characters, the last group ending
\* in up to two '='. A group is given by the 24 bits its four characters
\* stand for, and the number of '=' is kept beside the groups.
\* btoa(String.fromCharCode(...bytes)): three bytes to a group, the last
\* group filled up with zero bits and '='.
btoa(bytes) ==
    LET n == Len(bytes)
        at(k) == IF k <= n THEN bytes[k] ELSE 0
    IN  [groups |-> [g \in 1..((n + 2) \div 3) |->
                        at(3 * g - 2) * 65536 + at(3 * g - 1) * 256
                            + at(3 * g)],
         pads |-> (3 - (n % 3)) % 3]

\* atob(str) followed by charCodeAt(0) of every character: three bytes of
\* every group, less one byte for every '='.
atobBytes(str) ==
    [k \in 1..(3 * Len(str.groups) - str.pads) |->
        LET group == str.groups[((k - 1) \div 3) + 1]
        IN  CASE (k - 1) % 3 = 0 -> group \div 65536
              [] (k - 1) % 3 = 1 -> (group \div 256) % 256
              [] OTHER -> group % 256]

\* atob throws InvalidCharacterError for a string that is not base64.
atobValid(str) ==
    /\ \A g \in 1..Len(str.groups) : str.groups[g] \in 0..16777215
    /\ str.pads \in 0..2
    /\ str.groups = <<>> => str.pads = 0

\* PBKDF2 with the given salt, 100000 iterations and SHA-256: the key is a
\* function of the password and the salt, different for different arguments.
deriveKey(password, salt) == [password |-> password, salt |-> salt]

\* What the model keeps of AES-GCM: the output has as many bytes as the data
\* and TagLen more; the ciphertext is the data under a key stream that
\* depends on the key and the iv, the tag a checksum of key, iv and
\* ciphertext that changes when one byte of the password's salt, of the iv
\* or of the ciphertext changes.
byteAt(bytes, k) == IF k <= Len(bytes) THEN bytes[k] ELSE 0

gcmStream(key, iv, j) ==
    key.password + byteAt(key.salt, ((j - 1) % SaltLen) + 1)
        + byteAt(iv, ((j - 1) % IvLen) + 1) + j

gcmTag(key, iv, ciphertext) ==
    LET sum == key.password + Sum(ciphertext)
    IN  [j \in 1..TagLen |->
            (sum + byteAt(key.salt, j) + byteAt(iv, j) + j) % 256]

gcmEncrypt(key, iv, data) ==
    LET ciphertext == [j \in 1..Len(data) |->
                          (data[j] + gcmStream(key, iv, j)) % 256]
    IN  ciphertext \o gcmTag(key, iv, ciphertext)

\* Variant: the tag is not verified.
gcmDecrypt_noTag(key, iv, encrypted) ==
    LET n == Len(encrypted) - TagLen
    IN  IF n < 0
        THEN [ok |-> FALSE, data |-> <<>>]
        ELSE [ok |-> TRUE,
              data |-> [j \in 1..n |->
                           (encrypted[j] - gcmStream(key, iv, j)) % 256]]

\* crypto.subtle.decrypt: the data, or OperationError when the tag is not
\* the one of the ciphertext under the key and the iv.
gcmDecrypt(key, iv, encrypted) ==
    LET n == Len(encrypted) - TagLen
    IN  IF n < 0 \/ SubSeq(encrypted, n + 1, n + TagLen)
                        # gcmTag(key, iv, SubSeq(encrypted, 1, n))
        THEN [ok |-> FALSE, data |-> <<>>]
        ELSE [ok |-> TRUE,
              data |-> [j \in 1..n |->
                           (encrypted[j] - gcmStream(key, iv, j)) % 256]]

\* encryptText: base64 of salt || iv || AES-GCM ciphertext-and-tag.
encryptText(text, password, salt, iv) ==
    btoa(salt \o iv
           \o gcmEncrypt(deriveKey(password, salt), iv, TextEncode(text)))

\* decryptText: the bytes of the string, salt = bytes 0..15, iv = bytes
\* 16..27, ciphertext-and-tag = the rest; throws when atob or the decryption
\* throws.
decryptText(encryptedData, password) ==
    LET combined == atobBytes(encryptedData)
        salt == slice(combined, 0, SaltLen)
        iv == slice(combined, SaltLen, SaltLen + IvLen)
        opened == gcmDecrypt(deriveKey(password, salt), iv,
                             slice(combined, SaltLen + IvLen, Len(combined)))
    IN  IF atobValid(encryptedData) /\ opened.ok
        THEN [ok |-> TRUE, text |-> TextDecode(opened.data)]
        ELSE [ok |-> FALSE, text |-> NoText]

\* ------------------------------------------------------- browser-side state
\* The address connected in each browser (useAccount): account[b].
address(b) == account[b]

contractAddress == VaultAddr

\* localStorage of one browser: the set of its items <<key, value>>. The keys
\* fhevm_handle_<vault>_<id> and encrypted_text_<vault>_<id> are written
\* <<kind, id>>, with Pending as the id of the ..._pending keys.
Pending == -1

handleKey(id) == <<"fhevm_handle", id>>

textKey(id) == <<"encrypted_text", id>>

hasItem(store, key) == \E it \in store : it[1] = key

getItem(store, key) == (CHOOSE it \in store : it[1] = key)[2]

removeItem(store, key) == {it \in store : it[1] # key}

setItem(store, key, value) == removeItem(store, key) \cup {<<key, value>>}

\* getItem, and when the item is there setItem under the other key and
\* removeItem.
moveItem(store, from, to) ==
    IF hasItem(store, from)
    THEN removeItem(setItem(store, to, getItem(store, from)), from)
    ELSE store

\* ContractList's contracts state is the set of its entries.
hasContract(entries, contractId) == \E c \in entries : c.id = contractId

findContract(entries, contractId) == CHOOSE c \in entries : c.id = contractId

NoTotal == -1


Init ==
    /\ contracts = [i \in Ids |-> EmptyContract]
    /\ clientContracts = [a \in Addrs |-> <<>>]
    /\ lawyerContracts = [a \in Addrs |-> <<>>]
    /\ totalContracts = 0
    /\ acl = {}
    /\ events = [i \in Ids |-> <<>>]
    /\ now = 1
    /\ lastOp = NoOp
    /\ localStorage = [b \in Browsers |-> {}]
    /\ createForm = [b \in Browsers |->
                        [isSubmitting |-> FALSE, isSuccess |-> FALSE]]
    /\ list = [b \in Browsers |-> {}]
    /\ prevTotalContractsRef = [b \in Browsers |-> NoTotal]
    /\ docOf = <<>>
    /\ account = [b \in Browsers |-> b]

\* ---------------------------------------------------------- createContract
\* Variant: the title is not validated.
createContractCheck_noTitle(sender, title, client) ==
    IF client = ZeroAddr THEN "Client address cannot be zero"
    ELSE IF client = sender THEN "Lawyer and client cannot be the same"
    ELSE "ok"

\* Variant: the client is not compared with the sender.
createContractCheck_noSame(sender, title, client) ==
    IF client = ZeroAddr THEN "Client address cannot be zero"
    ELSE IF title = "" THEN "Title cannot be empty"
    ELSE "ok"

createContractCheck(sender, title, client) ==
    IF client = ZeroAddr THEN "Client address cannot be zero"
    ELSE IF client = sender THEN "Lawyer and client cannot be the same"
    ELSE IF title = "" THEN "Title cannot be empty"
    ELSE "ok"

\* Variant: the sender's grant outlives the transaction.
allowOnCreate_persistSender(grants, handle, sender) ==
    grants \cup {<<handle, VaultAddr>>, <<handle, sender>>}

\* FHE.fromExternal allows the sender for the running transaction only;
\* FHE.allowThis adds the vault itself to the persistent list. What is left
\* after the transaction is the vault's grant: no party is granted.
allowOnCreate(grants, handle, sender) == grants \cup {<<handle, VaultAddr>>}

\* Variant: the id is taken after the counter was incremented.
newContract_idAfter(contractId, title, handle, sender, client, timestamp) ==
    [id |-> contractId + 1, title |-> title, encryptedContent |-> handle,
     lawyer |-> sender, client |-> client,
     status |-> PendingClientApproval, createdAt |-> timestamp,
     clientApprovedAt |-> 0, lawyerConfirmedAt |-> 0, exists |-> TRUE]

\* Variant: the id field is left at its default.
newContract_idZero(contractId, title, handle, sender, client, timestamp) ==
    [id |-> 0, title |-> title, encryptedContent |-> handle,
     lawyer |-> sender, client |-> client,
     status |-> PendingClientApproval, createdAt |-> timestamp,
     clientApprovedAt |-> 0, lawyerConfirmedAt |-> 0, exists |-> TRUE]

newContract(contractId, title, handle, sender, client, timestamp) ==
    [id |-> contractId, title |-> title, encryptedContent |-> handle,
     lawyer |-> sender, client |-> client,
     status |-> PendingClientApproval, createdAt |-> timestamp,
     clientApprovedAt |-> 0, lawyerConfirmedAt |-> 0, exists |-> TRUE]

createContract(sender, title, client, encryptedContent) ==
    LET check == createContractCheck(sender, title, client)
        contractId == totalContracts
    IN  IF check = "ok"
        THEN /\ totalContracts < MaxContracts
             /\ totalContracts' = totalContracts + 1
             /\ acl' = allowOnCreate(acl, encryptedContent, sender)
             /\ contracts' = [contracts EXCEPT ![contractId] =
                    newContract(contractId, title, encryptedContent, sender,
                                client, now)]
             /\ clientContracts' = [clientContracts EXCEPT ![client] =
                    Append(@, contractId)]
             /\ lawyerContracts' = [lawyerContracts EXCEPT ![sender] =
                    Append(@, contractId)]
             /\ events' = [events EXCEPT ![contractId] = Append(@,
                    [name |-> "ContractCreated", id |-> contractId,
                     who |-> sender, time |-> now])]
             /\ lastOp' = [Receipt("createContract", "ok") EXCEPT
                                 !.retId = contractId]
             /\ UNCHANGED now
        ELSE /\ lastOp' = Receipt("createContract", check)
             /\ UNCHANGED <<ledger, now>>

\* ----------------------------------------------------------- clientApprove
\* Variant: the caller is not compared with the record's client.
clientApproveCheck_anyCaller(sender, contractId) ==
    LET contractData == contracts[contractId]
    IN  IF ~contractData.exists THEN "Contract does not exist"
        ELSE IF contractData.status # PendingClientApproval
             THEN "Contract not in pending client approval status"
        ELSE "ok"

\* Variant: the caller is compared before the existence flag is read.
clientApproveCheck_clientFirst(sender, contractId) ==
    LET contractData == contracts[contractId]
    IN  IF contractData.client # sender THEN "Only client can approve"
        ELSE IF ~contractData.exists THEN "Contract does not exist"
        ELSE IF contractData.status # PendingClientApproval
             THEN "Contract not in pending client approval status"
        ELSE "ok"

clientApproveCheck(sender, contractId) ==
    LET contractData == contracts[contractId]
    IN  IF ~contractData.exists THEN "Contract does not exist"
        ELSE IF contractData.client # sender THEN "Only client can approve"
        ELSE IF contractData.status # PendingClientApproval
             THEN "Contract not in pending client approval status"
        ELSE "ok"

\* Variant: the approval completes the record at once.
clientApproveStore_skip(contractData, timestamp) ==
    [contractData EXCEPT !.status = Completed,
                         !.clientApprovedAt = timestamp]

\* Variant: the approval time is not recorded.
clientApproveStore_noTime(contractData, timestamp) ==
    [contractData EXCEPT !.status = PendingLawyerFinalConfirmation]

clientApproveStore(contractData, timestamp) ==
    [contractData EXCEPT !.status = PendingLawyerFinalConfirmation,
                         !.clientApprovedAt = timestamp]

clientApprove(sender, contractId) ==
    LET check == clientApproveCheck(sender, contractId)
    IN  /\ lastOp' = Receipt("clientApprove", check)
        /\ IF check = "ok"
           THEN /\ contracts' = [contracts EXCEPT ![contractId] =
                       clientApproveStore(@, now)]
                /\ events' = [events EXCEPT ![contractId] = Append(@,
                       [name |-> "ClientApproved", id |-> contractId,
                        who |-> sender, time |-> now])]
                /\ UNCHANGED <<clientContracts, lawyerContracts,
                               totalContracts, acl, now>>
           ELSE UNCHANGED <<ledger, now>>

\* ----------------------------------------------------------- lawyerConfirm
\* Variant: any status short of Completed is accepted.
lawyerConfirmCheck_anyPending(sender, contractId) ==
    LET contractData == contracts[contractId]
    IN  IF ~contractData.exists THEN "Contract does not exist"
        ELSE IF contractData.lawyer # sender THEN "Only lawyer can confirm"
        ELSE IF contractData.status = Completed
             THEN "Contract not in pending lawyer confirmation status"
        ELSE "ok"

\* Variant: the status is compared with the wrong member of ContractStatus.
lawyerConfirmCheck_wrongStatus(sender, contractId) ==
    LET contractData == contracts[contractId]
    IN  IF ~contractData.exists THEN "Contract does not exist"
        ELSE IF contractData.lawyer # sender THEN "Only lawyer can confirm"
        ELSE IF contractData.status # Completed
             THEN "Contract not in pending lawyer confirmation status"
        ELSE "ok"

lawyerConfirmCheck(sender, contractId) ==
    LET contractData == contracts[contractId]
    IN  IF ~contractData.exists THEN "Contract does not exist"
        ELSE IF contractData.lawyer # sender THEN "Only lawyer can confirm"
        ELSE IF contractData.status # PendingLawyerFinalConfirmation
             THEN "Contract not in pending lawyer confirmation status"
        ELSE "ok"

\* Variant: the stored ciphertext is cleared on completion.
lawyerConfirmStore_resetHandle(contractData, timestamp) ==
    [contractData EXCEPT !.status = Completed,
                         !.lawyerConfirmedAt = timestamp,
                         !.encryptedContent = NoHandle]

\* Variant: the record is dropped on completion.
lawyerConfirmStore_delete(contractData, timestamp) ==
    [contractData EXCEPT !.status = Completed,
                         !.lawyerConfirmedAt = timestamp,
                         !.exists = FALSE]

lawyerConfirmStore(contractData, timestamp) ==
    [contractData EXCEPT !.status = Completed,
                         !.lawyerConfirmedAt = timestamp]

\* Variant: only the lawyer is granted.
allowParties_lawyerOnly(grants, contractData) ==
    grants \cup {<<contractData.encryptedContent, contractData.lawyer>>}

\* Variant: the parties are granted every ciphertext the vault holds.
allowParties_everyHandle(grants, contractData) ==
    grants \cup {<<g[1], who>> :
                    g \in grants,
                    who \in {contractData.lawyer, contractData.client}}

\* FHE.allow(handle, lawyer); FHE.allow(handle, client): the list is keyed by
\* the handle value, not by the record.
allowParties(grants, contractData) ==
    grants \cup {<<contractData.encryptedContent, contractData.lawyer>>,
               <<contractData.encryptedContent, contractData.client>>}

lawyerConfirm(sender, contractId) ==
    LET check == lawyerConfirmCheck(sender, contractId)
    IN  /\ lastOp' = Receipt("lawyerConfirm", check)
        /\ IF check = "ok"
           THEN /\ contracts' = [contracts EXCEPT ![contractId] =
                       lawyerConfirmStore(@, now)]
                /\ acl' = allowParties(acl, contracts[contractId])
                /\ events' = [events EXCEPT ![contractId] = Append(@,
                       [name |-> "LawyerConfirmed", id |-> contractId,
                        who |-> sender, time |-> now])]
                /\ UNCHANGED <<clientContracts, lawyerContracts,
                               totalContracts, now>>
           ELSE UNCHANGED <<ledger, now>>

\* ----------------------------------------------------- getEncryptedContent
\* Variant: the caller is checked before the status.
getEncryptedContentCheck_authFirst(sender, contractId) ==
    LET contractData == contracts[contractId]
    IN  IF ~contractData.exists THEN "Contract does not exist"
        ELSE IF ~(sender = contractData.lawyer \/ sender = contractData.client)
             THEN "Only lawyer or client can access content"
        ELSE IF contractData.status # Completed
             THEN "Contract must be completed to access content"
        ELSE "ok"

getEncryptedContentCheck(sender, contractId) ==
    LET contractData == contracts[contractId]
    IN  IF ~contractData.exists THEN "Contract does not exist"
        ELSE IF contractData.status # Completed
             THEN "Contract must be completed to access content"
        ELSE IF ~(sender = contractData.lawyer \/ sender = contractData.client)
             THEN "Only lawyer or client can access content"
        ELSE "ok"

getEncryptedContent(sender, contractId) ==
    LET check == getEncryptedContentCheck(sender, contractId)
    IN  /\ lastOp' = [Receipt("getEncryptedContent", check)
                      EXCEPT !.retCt = IF check = "ok"
                                     THEN contracts[contractId].encryptedContent
                                     ELSE NoHandle]
        /\ UNCHANGED <<ledger, now>>

\* ------------------------------------------------------------ other reads
\* Variant: the call leaves a grant behind.
view_touching(op, result) ==
    /\ lastOp' = Receipt(op, result)
    /\ acl' = acl \cup {<<NoHandle, ZeroAddr>>}
    /\ UNCHANGED <<contracts, clientContracts, lawyerContracts,
                   totalContracts, events, now>>

\* A call of a view function: it answers or reverts and writes nothing.
view(op, result) ==
    /\ lastOp' = Receipt(op, result)
    /\ UNCHANGED <<ledger, now>>

getContractCheck(contractId) ==
    IF ~contracts[contractId].exists THEN "Contract does not exist" ELSE "ok"

\* What getContract returns when it does not revert.
getContractReturn(contractId) ==
    LET contractData == contracts[contractId]
    IN  <<contractData.title, contractData.lawyer, contractData.client,
          contractData.status, contractData.createdAt,
          contractData.clientApprovedAt, contractData.lawyerConfirmedAt>>

getContract(contractId) == view("getContract", getContractCheck(contractId))

\* Variant: the list is read from the other mapping.
getClientContractsReturn_lawyers(client) == lawyerContracts[client]

getClientContractsReturn(client) == clientContracts[client]

getClientContracts(client) == view("getClientContracts", "ok")

getLawyerContractsReturn(lawyer) == lawyerContracts[lawyer]

getLawyerContracts(lawyer) == view("getLawyerContracts", "ok")

contractExistsReturn(contractId) == contracts[contractId].exists

contractExists(contractId) == view("contractExists", "ok")

\* The getter of the public counter.
totalContractsReturn == totalContracts

getTotalContracts == view("totalContracts", "ok")

\* A later block: block.timestamp never goes back.
Tick ==
    /\ now < MaxTime
    /\ now' = now + 1
    /\ UNCHANGED <<ledger, lastOp>>

\* ------------------------------------------------------------ useFHEVM
\* encryptText and decryptText under the vault's address, tabulated for the
\* texts and the random values the handlers are explored with: the values
\* of the two functions, computed once.
SealTexts == Texts \cup CryptoTexts

SealInputs == {<<t, sa, iv>> : t \in SealTexts, sa \in Salts, iv \in Ivs}

encryptTextTable ==
    [x \in SealInputs |-> encryptText(x[1], contractAddress, x[2], x[3])]

SealedTexts == {encryptTextTable[x] : x \in SealInputs}

decryptTextTable ==
    [str \in SealedTexts |-> decryptText(str, contractAddress)]

encryptTextOnce(text, password, salt, iv) ==
    IF /\ password = contractAddress
       /\ text \in SealTexts /\ salt \in Salts /\ iv \in Ivs
    THEN encryptTextTable[<<text, salt, iv>>]
    ELSE encryptText(text, password, salt, iv)

decryptTextOnce(encryptedData, password) ==
    IF password = contractAddress /\ encryptedData \in SealedTexts
    THEN decryptTextTable[encryptedData]
    ELSE decryptText(encryptedData, password)

\* encryptString: the fingerprint of the text encrypted for the ledger, and
\* the text sealed under the vault's address for localStorage.
encryptString(addr, text, nonce, salt, iv) ==
    [handle |-> [nonce |-> nonce, value |-> calculateTextHash(text)],
     encryptedText |-> encryptTextOnce(text, addr, salt, iv)]

Failed(kind) == [result |-> kind, text |-> NoText]

\* Variant: the recomputed fingerprint is not compared.
decryptString_noVerify(store, who, addr, handle, contractId) ==
    IF <<handle, who>> \notin acl THEN Failed("DecryptionDenied")
    ELSE IF ~hasItem(store, textKey(contractId))
         THEN Failed("PayloadMissing")
    ELSE LET opened ==
                 decryptTextOnce(getItem(store, textKey(contractId)), addr)
         IN  IF ~opened.ok THEN Failed("PayloadCorrupted")
             ELSE [result |-> "ok", text |-> opened.text]

\* decryptString: decrypt the fingerprint as the connected address, fetch the
\* sealed text stored under the id, open it under the vault's address and
\* compare fingerprints.
decryptString(store, who, addr, handle, contractId) ==
    IF <<handle, who>> \notin acl THEN Failed("DecryptionDenied")
    ELSE IF ~hasItem(store, textKey(contractId))
         THEN Failed("PayloadMissing")
    ELSE LET opened ==
                 decryptTextOnce(getItem(store, textKey(contractId)), addr)
         IN  IF ~opened.ok THEN Failed("PayloadCorrupted")
             ELSE IF calculateTextHash(opened.text) # handle.value
                  THEN Failed("IntegrityMismatch")
             ELSE [result |-> "ok", text |-> opened.text]

\* ---------------------------------------------------------- CreateContract
\* The browsers from which records are created, and what is typed in the form.
Creators == {1}
FormTitles == Titles \ {""}
FormClients == Counterparties \ {ZeroAddr}

\* handleSubmit with the form filled in and the button enabled: seal, park the
\* handle and the sealed text under the pending keys, submit createContract.
\* The transaction is mined before anything else happens; isSuccess tells
\* whether it was confirmed. docOf lists the texts the records were created
\* with, in the order of their ids.
handleSubmit(b, title, clientAddress, content, nonce, salt, iv) ==
    LET encrypted == encryptString(contractAddress, content, nonce, salt, iv)
    IN  /\ ~createForm[b].isSubmitting
        /\ createContract(address(b), title, clientAddress, encrypted.handle)
        /\ localStorage' = [localStorage EXCEPT ![b] =
               setItem(setItem(@, handleKey(Pending), encrypted.handle),
                       textKey(Pending), encrypted.encryptedText)]
        /\ createForm' = [createForm EXCEPT ![b] =
               [isSubmitting |-> TRUE, isSuccess |-> lastOp'.result = "ok"]]
        /\ docOf' = IF lastOp'.result = "ok" THEN Append(docOf, content)
                    ELSE docOf
        /\ UNCHANGED <<list, prevTotalContractsRef, account>>

\* A form field left empty: the title "", the content NoText, the client
\* address NoAddress.
NoAddress == -1

\* Variant: the content field is not looked at.
handleSubmitCheck_noText(isConnected, title, clientAddress, content, fhevm) ==
    IF ~isConnected THEN "Please connect your wallet"
    ELSE IF title = "" \/ clientAddress = NoAddress
         THEN "Please fill in all fields"
    ELSE IF fhevm = "loading" THEN "FHEVM is initializing, please wait..."
    ELSE IF fhevm = "error" THEN "FHEVM initialization failed"
    ELSE "ok"

\* The checks handleSubmit makes before it starts: the wallet, the fields,
\* the state of useFHEVM ("ready", "loading" or "error").
handleSubmitCheck(isConnected, title, clientAddress, content, fhevm) ==
    IF ~isConnected THEN "Please connect your wallet"
    ELSE IF title = "" \/ clientAddress = NoAddress \/ content = NoText
         THEN "Please fill in all fields"
    ELSE IF fhevm = "loading" THEN "FHEVM is initializing, please wait..."
    ELSE IF fhevm = "error" THEN "FHEVM initialization failed"
    ELSE "ok"

\* The form is submitted, the whole of handleSubmit: a failed check ends it
\* with a toast; when encryptString returns nothing (sealed is false)
\* isSubmitting is set and taken back; otherwise the pending keys are
\* written and writeContract is called. writeContract does not throw: a
\* request the user rejects in the wallet (signed is false) leaves its error
\* in the hook, which the component does not read. form is what the fields
\* hold: <<title, clientAddress, content>>.
onSubmit(b, isConnected, form, fhevm, sealed, signed, nonce, salt, iv) ==
    LET title == form[1]
        clientAddress == form[2]
        content == form[3]
        check == handleSubmitCheck(isConnected, title, clientAddress,
                                   content, fhevm)
        encrypted == encryptString(contractAddress, content, nonce, salt, iv)
    IN  IF check # "ok" \/ ~sealed
        THEN /\ ~createForm[b].isSubmitting
             /\ lastOp' = [Receipt("handleSubmit",
                                   IF check # "ok" THEN check
                                   ELSE "Failed to encrypt content")
                           EXCEPT !.browser = b]
             /\ UNCHANGED <<ledger, now, app>>
        ELSE IF signed
        THEN handleSubmit(b, title, clientAddress, content, nonce, salt, iv)
        ELSE /\ ~createForm[b].isSubmitting
             /\ lastOp' = [Receipt("handleSubmit", "User rejected the request")
                           EXCEPT !.browser = b]
             /\ localStorage' = [localStorage EXCEPT ![b] =
                    setItem(setItem(@, handleKey(Pending), encrypted.handle),
                            textKey(Pending), encrypted.encryptedText)]
             /\ createForm' = [createForm EXCEPT ![b] =
                    [isSubmitting |-> TRUE, isSuccess |-> FALSE]]
             /\ UNCHANGED <<ledger, now, list, prevTotalContractsRef, docOf,
                            account>>

\* The id the success effect files the pending items under.
effectContractId(seen) == IF seen > 0 THEN seen - 1 ELSE 0

movePending(store, contractId) ==
    moveItem(moveItem(store, handleKey(Pending), handleKey(contractId)),
             textKey(Pending), textKey(contractId))

\* The effect on isSuccess: seen is the value the component's own
\* totalContracts read holds at that moment, some value the counter has had.
createSuccessEffect(b, seen) ==
    /\ seen <= totalContracts
    /\ createForm[b].isSuccess
    /\ createForm[b].isSubmitting
    /\ localStorage' = [localStorage EXCEPT ![b] =
           movePending(@, effectContractId(seen))]
    /\ createForm' = [createForm EXCEPT ![b].isSubmitting = FALSE]
    /\ UNCHANGED <<ledger, now, lastOp, list, prevTotalContractsRef, docOf,
                   account>>

\* ------------------------------------------------------------ ContractList
\* loadContracts: getContract for every id below total, kept when the
\* connected address is the lawyer or the client; the entries are new objects.
loadContracts(b, total) ==
    {[id |-> i, lawyer |-> contracts[i].lawyer, client |-> contracts[i].client,
      status |-> contracts[i].status, createdAt |-> contracts[i].createdAt,
      decryptedContent |-> NoText] :
        i \in {j \in Ids :
                 /\ j < total
                 /\ address(b) \in {contracts[j].lawyer, contracts[j].client}}}

\* The polled totalContracts arrives: the list is reloaded on the first value
\* and whenever the value has increased.
pollTotalContracts(b) ==
    /\ \/ prevTotalContractsRef[b] = NoTotal
       \/ totalContracts > prevTotalContractsRef[b]
    /\ list' = [list EXCEPT ![b] = loadContracts(b, totalContracts)]
    /\ prevTotalContractsRef' =
           [prevTotalContractsRef EXCEPT ![b] = totalContracts]
    /\ UNCHANGED <<ledger, now, lastOp, localStorage, createForm, docOf,
                   account>>

\* The page is loaded anew: component state starts over, localStorage stays.
reloadPage(b) ==
    /\ list' = [list EXCEPT ![b] = {}]
    /\ prevTotalContractsRef' = [prevTotalContractsRef EXCEPT ![b] = NoTotal]
    /\ createForm' = [createForm EXCEPT ![b] =
           [isSubmitting |-> FALSE, isSuccess |-> FALSE]]
    /\ UNCHANGED <<ledger, now, lastOp, localStorage, docOf, account>>

\* The wallet connects another account: useAccount yields the new address.
\* The reload effect runs again, finds the totalContracts it holds no greater
\* than the one it loaded with and skips the reload: the list loaded under
\* the previous account stays.
switchAccount(b, a) ==
    /\ a # account[b]
    /\ account' = [account EXCEPT ![b] = a]
    /\ UNCHANGED <<ledger, now, lastOp, localStorage, createForm, list,
                   prevTotalContractsRef, docOf>>

\* Variant: the cached status is not checked.
handleClientApproveCheck_noStatus(b, contractId) ==
    IF ~hasContract(list[b], contractId) THEN "Contract not found"
    ELSE LET contract == findContract(list[b], contractId)
         IN  IF contract.client # address(b)
             THEN "Only the client can approve this contract"
             ELSE "ok"

\* The checks handleClientApprove makes on the cached entry.
handleClientApproveCheck(b, contractId) ==
    IF ~hasContract(list[b], contractId) THEN "Contract not found"
    ELSE LET contract == findContract(list[b], contractId)
         IN  IF contract.status # 0
             THEN "Contract is not in pending approval status"
             ELSE IF contract.client # address(b)
                  THEN "Only the client can approve this contract"
             ELSE "ok"

\* A failed check ends the handler with a toast; otherwise the transaction
\* is submitted and mined.
handleClientApprove(b, contractId) ==
    /\ handleClientApproveCheck(b, contractId) = "ok"
    /\ clientApprove(address(b), contractId)
    /\ UNCHANGED app

\* The checks handleLawyerConfirm makes on the cached entry.
handleLawyerConfirmCheck(b, contractId) ==
    IF ~hasContract(list[b], contractId) THEN "Contract not found"
    ELSE LET contract == findContract(list[b], contractId)
         IN  IF contract.status # 1
             THEN "Contract is not in pending confirmation status"
             ELSE IF contract.lawyer # address(b)
                  THEN "Only the lawyer can confirm this contract"
             ELSE "ok"

handleLawyerConfirm(b, contractId) ==
    /\ handleLawyerConfirmCheck(b, contractId) = "ok"
    /\ lawyerConfirm(address(b), contractId)
    /\ UNCHANGED app

\* Variant: the cached status is not checked.
handleDecryptCheck_noStatus(b, contractId) ==
    IF ~hasContract(list[b], contractId) THEN "Contract not found"
    ELSE LET contract == findContract(list[b], contractId)
         IN  IF address(b) \notin {contract.lawyer, contract.client}
             THEN "Only lawyer or client can decrypt this contract"
             ELSE "ok"

\* Variant: the connected address is not compared with the parties.
handleDecryptCheck_noParty(b, contractId) ==
    IF ~hasContract(list[b], contractId) THEN "Contract not found"
    ELSE LET contract == findContract(list[b], contractId)
         IN  IF contract.status # 2
             THEN "Contract must be completed to decrypt"
             ELSE "ok"

\* The checks handleDecrypt makes on the cached entry.
handleDecryptCheck(b, contractId) ==
    IF ~hasContract(list[b], contractId) THEN "Contract not found"
    ELSE LET contract == findContract(list[b], contractId)
         IN  IF contract.status # 2
             THEN "Contract must be completed to decrypt"
             ELSE IF address(b) \notin {contract.lawyer, contract.client}
                  THEN "Only lawyer or client can decrypt this contract"
             ELSE "ok"

\* The handle comes from this browser's localStorage: the item of the id, or
\* else the pending item, which is then filed under the id.
savedHandle(store, contractId) ==
    IF hasItem(store, handleKey(contractId))
    THEN getItem(store, handleKey(contractId))
    ELSE IF hasItem(store, handleKey(Pending))
         THEN getItem(store, handleKey(Pending))
    ELSE NoHandle

\* Variant: the pending handle is removed without being filed under the id.
adoptPending_drop(store, contractId) ==
    IF hasItem(store, handleKey(contractId)) THEN store
    ELSE removeItem(store, handleKey(Pending))

adoptPending(store, contractId) ==
    IF hasItem(store, handleKey(contractId)) THEN store
    ELSE moveItem(store, handleKey(Pending), handleKey(contractId))

handleDecrypt(b, contractId) ==
    LET check == handleDecryptCheck(b, contractId)
        handle == savedHandle(localStorage[b], contractId)
        store == adoptPending(localStorage[b], contractId)
        out == IF check # "ok" THEN Failed(check)
               ELSE IF handle = NoHandle THEN Failed("old contract")
               ELSE decryptString(store, address(b), contractAddress, handle,
                                  contractId)
        shown == out.result = "ok" /\ out.text # NoText
    IN  /\ lastOp' =
               [Receipt("handleDecrypt",
                        IF out.result = "ok" /\ ~shown
                        THEN "Failed to decrypt contract" ELSE out.result)
                EXCEPT !.retId = contractId, !.browser = b,
                       !.text = IF shown THEN out.text ELSE NoText]
        /\ localStorage' = [localStorage EXCEPT ![b] =
               IF check = "ok" THEN store ELSE @]
        /\ list' = IF shown
                   THEN [list EXCEPT ![b] =
                            {IF c.id = contractId
                             THEN [c EXCEPT !.decryptedContent = out.text]
                             ELSE c : c \in @}]
                   ELSE list
        /\ UNCHANGED <<ledger, now, createForm, prevTotalContractsRef, docOf,
                       account>>

Next ==
    \/ \E s \in Initiators, t \in Titles, c \in Counterparties, h \in Handles :
          createContract(s, t, c, h) /\ UNCHANGED app
    \/ \E s \in Users, i \in Ids : clientApprove(s, i) /\ UNCHANGED app
    \/ \E s \in Users, i \in Ids : lawyerConfirm(s, i) /\ UNCHANGED app
    \/ \E s \in Users, i \in Ids :
          getEncryptedContent(s, i) /\ UNCHANGED app
    \/ Tick /\ UNCHANGED app

\* The ledger under direct calls.
Spec == Init /\ [][Next]_vars

\* The parties keep trying: an approval that the ledger would accept is
\* eventually sent by the record's client, a confirmation that it would
\* accept by the record's lawyer.
approves(i) ==
    \E s \in Users :
        /\ clientApproveCheck(s, i) = "ok"
        /\ clientApprove(s, i)
        /\ UNCHANGED app

confirms(i) ==
    \E s \in Users :
        /\ lawyerConfirmCheck(s, i) = "ok"
        /\ lawyerConfirm(s, i)
        /\ UNCHANGED app

FairParties == \A i \in Ids : WF_vars(approves(i)) /\ WF_vars(confirms(i))

\* The ledger under direct calls, with parties that keep trying.
SpecParties == Init /\ [][Next]_vars /\ FairParties

\* The ledger under every call that names a record, made for every id.
NextCalls ==
    \/ Next
    \/ \E i \in Ids : getContract(i) /\ UNCHANGED app
    \/ \E i \in Ids : contractExists(i) /\ UNCHANGED app

SpecCalls == Init /\ [][NextCalls]_vars

\* The reads, from every state the successful transactions lead to.
NextReads ==
    \/ \E s \in Initiators, t \in Titles, c \in Counterparties, h \in Handles :
          /\ createContractCheck(s, t, c) = "ok"
          /\ createContract(s, t, c, h)
          /\ UNCHANGED app
    \/ \E s \in Users, i \in Ids :
          /\ clientApproveCheck(s, i) = "ok"
          /\ clientApprove(s, i)
          /\ UNCHANGED app
    \/ \E s \in Users, i \in Ids :
          /\ lawyerConfirmCheck(s, i) = "ok"
          /\ lawyerConfirm(s, i)
          /\ UNCHANGED app
    \/ \E s \in Users, i \in Ids :
          getEncryptedContent(s, i) /\ UNCHANGED app
    \/ \E i \in Ids : getContract(i) /\ UNCHANGED app
    \/ \E a \in Addrs : getClientContracts(a) /\ UNCHANGED app
    \/ \E a \in Addrs : getLawyerContracts(a) /\ UNCHANGED app
    \/ \E i \in Ids : contractExists(i) /\ UNCHANGED app
    \/ getTotalContracts /\ UNCHANGED app
    \/ Tick /\ UNCHANGED app

\* The ledger under its view functions.
SpecReads == Init /\ [][NextReads]_vars

NextApp ==
    \/ \E b \in Creators, t \in FormTitles, c \in FormClients,
          x \in Texts, n \in Nonces, sa \in Salts, iv \in Ivs :
          handleSubmit(b, t, c, x, n, sa, iv)
    \/ \E b \in Browsers, seen \in 0..MaxContracts :
          createSuccessEffect(b, seen)
    \/ \E b \in Browsers : pollTotalContracts(b)
    \/ \E b \in Browsers : reloadPage(b)
    \/ \E b \in Browsers, i \in Ids : handleClientApprove(b, i)
    \/ \E b \in Browsers, i \in Ids : handleLawyerConfirm(b, i)
    \/ \E b \in Browsers, i \in Ids : handleDecrypt(b, i)

\* The ledger as driven from the browsers.
SpecApp == Init /\ [][NextApp]_vars

\* The browsers in which the wallet account is switched, and the text typed
\* into the form there.
Switchers == {2}
SwitchTexts == {<<65, 97>>}

NextAccounts ==
    \/ \E b \in Creators, t \in FormTitles, c \in FormClients,
          x \in SwitchTexts, n \in Nonces, sa \in Salts, iv \in Ivs :
          handleSubmit(b, t, c, x, n, sa, iv)
    \/ \E b \in Browsers, seen \in 0..MaxContracts :
          createSuccessEffect(b, seen)
    \/ \E b \in Browsers : pollTotalContracts(b)
    \/ \E b \in Browsers : reloadPage(b)
    \/ \E b \in Switchers, a \in Users : switchAccount(b, a)
    \/ \E b \in Browsers, i \in Ids : handleClientApprove(b, i)
    \/ \E b \in Browsers, i \in Ids : handleLawyerConfirm(b, i)
    \/ \E b \in Browsers, i \in Ids : handleDecrypt(b, i)

\* The browsers with the wallet account of one of them changing.
SpecAccounts == Init /\ [][NextAccounts]_vars

\* ------------------------------------------------- the list over time
\* Records are created, approved and confirmed from the browsers. What the
\* components do by themselves happens eventually: the polled
\* totalContracts arrives (refetchInterval, and the refetch of the isSuccess
\* effect) and the effects run. What the user does (a submission, a click, a
\* reload of the page) may or may not happen.
NextSync ==
    \/ \E b \in Creators, t \in FormTitles, c \in FormClients,
          x \in SwitchTexts, n \in Nonces, sa \in Salts, iv \in Ivs :
          handleSubmit(b, t, c, x, n, sa, iv)
    \/ \E b \in Browsers, seen \in 0..MaxContracts :
          createSuccessEffect(b, seen)
    \/ \E b \in Browsers : pollTotalContracts(b)
    \/ \E b \in Browsers : reloadPage(b)
    \/ \E b \in Browsers, i \in Ids : handleClientApprove(b, i)
    \/ \E b \in Browsers, i \in Ids : handleLawyerConfirm(b, i)

FairSync ==
    \A b \in Browsers :
        /\ WF_vars(pollTotalContracts(b))
        /\ WF_vars(\E seen \in 0..MaxContracts : createSuccessEffect(b, seen))

SpecSync == Init /\ [][NextSync]_vars /\ FairSync

\* ------------------------------------------------- the form over time
\* The form is submitted with every field filled in or left empty, with the
\* wallet connected or not, in every state of useFHEVM, with encryptString
\* returning or not and the user signing or not. The success effect runs
\* eventually; a submission and a reload of the page may or may not happen.
FormFields == Titles \X (FormClients \cup {NoAddress}) \X (Texts \cup {NoText})

FhevmStates == {"ready", "loading", "error"}

NextForm ==
    \/ \E b \in Creators, isConnected \in BOOLEAN, f \in FormFields,
          fhevm \in FhevmStates, sealed \in BOOLEAN, signed \in BOOLEAN,
          n \in Nonces, sa \in Salts, iv \in Ivs :
          onSubmit(b, isConnected, f, fhevm, sealed, signed, n, sa, iv)
    \/ \E b \in Creators, seen \in 0..MaxContracts :
          createSuccessEffect(b, seen)
    \/ \E b \in Browsers : pollTotalContracts(b)
    \/ \E b \in Creators : reloadPage(b)

FairForm ==
    \A b \in Creators :
        WF_vars(\E seen \in 0..MaxContracts : createSuccessEffect(b, seen))

SpecForm == Init /\ [][NextForm]_vars /\ FairForm

\* ------------------------------------------------ the cipher on its own
\* One record is created from browser 1 with a text of CryptoTexts and taken
\* through approval and confirmation. The sealed text this browser holds
\* under the record's id may get one of its bytes changed, and is opened,
\* by decryptText called on it directly, under the vault's address and
\* under another password, and by a decrypt request.
CryptoPasswords == {contractAddress, 5}
\* The sealed text under the id is one encryptText has returned.
Genuine(b, i) ==
    /\ hasItem(localStorage[b], textKey(i))
    /\ getItem(localStorage[b], textKey(i)) \in SealedTexts

\* One byte of the blob stored under the id gets its highest bit flipped.
corruptStored(b, i) ==
    /\ Genuine(b, i)
    /\ LET bytes == atobBytes(getItem(localStorage[b], textKey(i)))
       IN  \E k \in 1..Len(bytes) :
              localStorage' = [localStorage EXCEPT ![b] =
                  setItem(@, textKey(i),
                          btoa([bytes EXCEPT ![k] = (@ + 128) % 256]))]
    /\ UNCHANGED <<ledger, now, lastOp, createForm, list,
                   prevTotalContractsRef, docOf, account>>

\* decryptText called on the string stored under the id.
openStored(b, i, password) ==
    /\ hasItem(localStorage[b], textKey(i))
    /\ LET out == decryptText(getItem(localStorage[b], textKey(i)), password)
       IN  lastOp' = [Receipt("decryptText",
                              IF out.ok THEN "ok" ELSE "OperationError")
                      EXCEPT !.retId = i, !.browser = b, !.text = out.text]
    /\ UNCHANGED <<ledger, now, app>>

NextCrypto ==
    \/ \E b \in Creators, t \in FormTitles, c \in FormClients,
          x \in CryptoTexts, n \in Nonces, sa \in Salts, iv \in Ivs :
          /\ totalContracts = 0
          /\ handleSubmit(b, t, c, x, n, sa, iv)
    \/ \E b \in Creators : createSuccessEffect(b, totalContracts)
    \/ \E b \in Browsers : pollTotalContracts(b)
    \/ \E b \in Browsers, i \in Ids : handleClientApprove(b, i)
    \/ \E b \in Browsers, i \in Ids : handleLawyerConfirm(b, i)
    \/ \E b \in Creators : reloadPage(b)
    \/ \E b \in Creators, i \in Ids : corruptStored(b, i)
    \/ \E b \in Creators, i \in Ids, pw \in CryptoPasswords :
          openStored(b, i, pw)
    \/ \E b \in Creators, i \in Ids : handleDecrypt(b, i)

SpecCrypto == Init /\ [][NextCrypto]_vars

\* ------------------------------------------- calculateTextHash on its own
\* The function applied to every text of HashTexts: the receipt holds the
\* argument first and the returned number after the call.
InitHash ==
    /\ lastOp \in {[Receipt("text", "none") EXCEPT !.text = t] :
                       t \in HashTexts}
    /\ contracts = [i \in Ids |-> EmptyContract]
    /\ clientContracts = [a \in Addrs |-> <<>>]
    /\ lawyerContracts = [a \in Addrs |-> <<>>]
    /\ totalContracts = 0
    /\ acl = {}
    /\ events = [i \in Ids |-> <<>>]
    /\ now = 1
    /\ localStorage = [b \in Browsers |-> {}]
    /\ createForm = [b \in Browsers |->
                        [isSubmitting |-> FALSE, isSuccess |-> FALSE]]
    /\ list = [b \in Browsers |-> {}]
    /\ prevTotalContractsRef = [b \in Browsers |-> NoTotal]
    /\ docOf = <<>>
    /\ account = [b \in Browsers |-> b]

hashText ==
    /\ lastOp.op = "text"
    /\ lastOp' = [lastOp EXCEPT !.op = "calculateTextHash", !.result = "ok",
                                !.retId = calculateTextHash(lastOp.text)]
    /\ UNCHANGED <<ledger, now, app>>

NextHash == hashText

SpecHash == InitHash /\ [][NextHash]_vars

\* =================================================================== claims
Created == 0..(totalContracts - 1)

HoldsAccess(handle, who) == <<handle, who>> \in acl

\* C1: for every record and every step, the status stays or advances by
\* exactly one (0 -> 1 -> 2, never 0 -> 2, never back), and a Completed
\* record stays Completed.
C1_StatusMonotone ==
    [][\A i \in Ids :
          /\ contracts'[i].status \in
                 {contracts[i].status, contracts[i].status + 1}
          /\ contracts'[i].status \in
                 {PendingClientApproval, PendingLawyerFinalConfirmation,
                  Completed}
          /\ contracts[i].status = Completed
                 => contracts'[i].status = Completed]_vars

\* A record went through the whole sequence and a further clientApprove on
\* it was turned down.
C1_Witness ==
    /\ \E i \in Created : /\ contracts[i].status = Completed
                          /\ contracts[i].clientApprovedAt > 0
    /\ \A i \in Created : contracts[i].status = Completed
    /\ lastOp = Receipt("clientApprove",
                        "Contract not in pending client approval status")

\* C2: in every reachable state and for every record, the lawyer and the
\* client hold decryption access to the record's encrypted fingerprint if
\* and only if the record is Completed.
C2_AccessIffCompleted ==
    \A i \in Created :
        (/\ HoldsAccess(contracts[i].encryptedContent, contracts[i].lawyer)
         /\ HoldsAccess(contracts[i].encryptedContent, contracts[i].client))
        <=> contracts[i].status = Completed

\* C3: getEncryptedContent on an existing record reverts with "Contract must
\* be completed to access content" whenever the status is not Completed,
\* whoever calls; on a Completed record it returns the stored handle to the
\* lawyer and to the client and reverts with "Only lawyer or client can
\* access content" for every other caller.
C3_GetEncryptedContentGate ==
    [][lastOp'.op = "getEncryptedContent" =>
        (\A s \in Users, i \in Ids :
              contracts[i].exists =>
                  \/ IF contracts[i].status # Completed
                     THEN lastOp'.result =
                              "Contract must be completed to access content"
                     ELSE IF s \in {contracts[i].lawyer, contracts[i].client}
                     THEN /\ lastOp'.result = "ok"
                          /\ lastOp'.retCt = contracts[i].encryptedContent
                     ELSE lastOp'.result =
                              "Only lawyer or client can access content"
                  \/ ~getEncryptedContent(s, i))]_vars

\* A third party asked for the handle of a Completed record and was refused.
C3_Witness ==
    /\ lastOp = Receipt("getEncryptedContent",
                        "Only lawyer or client can access content")
    /\ \E i \in Created : contracts[i].status = Completed

\* C4: createContract with a zero counterparty, with the caller as the
\* counterparty or with an empty title is rejected, and the rejected call
\* leaves the counter, every record, both id lists, the access list and the
\* event log as they were.
C4_CreateRejected ==
    [][lastOp'.op = "createContract" =>
        \/ /\ lastOp'.result \in {"Client address cannot be zero",
                                   "Lawyer and client cannot be the same",
                                   "Title cannot be empty"}
           /\ UNCHANGED ledger
        \/ ~\E s \in Initiators, t \in Titles, c \in Counterparties,
                h \in Handles :
                /\ c = ZeroAddr \/ c = s \/ t = ""
                /\ createContract(s, t, c, h)]_vars

\* A create with an empty title was rejected while a record already existed.
C4_Witness ==
    /\ lastOp = Receipt("createContract", "Title cannot be empty")
    /\ totalContracts > 0

\* C5: a successful createContract(title, client, ciphertext) by L adds
\* exactly one record, under the id totalContracts had before the call, with
\* the given title, lawyer L, the given client, status
\* PendingClientApproval and both approval timestamps 0; the counter grows by
\* exactly one and the id is returned.
C5_CreateEffect ==
    [][lastOp'.op = "createContract" =>
        (\A s \in Initiators, t \in Titles, c \in Counterparties,
              h \in Handles :
              (lastOp'.result = "ok" /\ createContract(s, t, c, h)) =>
                  /\ totalContracts' = totalContracts + 1
                  /\ lastOp'.retId = totalContracts
                  /\ totalContracts \in Ids
                  /\ ~contracts[totalContracts].exists
                  /\ contracts' = [contracts EXCEPT ![totalContracts] =
                         [id |-> totalContracts, title |-> t,
                          encryptedContent |-> h, lawyer |-> s, client |-> c,
                          status |-> PendingClientApproval, createdAt |-> now,
                          clientApprovedAt |-> 0, lawyerConfirmedAt |-> 0,
                          exists |-> TRUE]])]_vars

\* The second record was just created, under id 1.
C5_Witness ==
    /\ lastOp = [Receipt("createContract", "ok") EXCEPT !.retId = 1]
    /\ contracts[1].exists
    /\ contracts[1].id = 1
    /\ totalContracts = 2

ApproveAllowed(s, i) ==
    /\ contracts[i].exists
    /\ contracts[i].client = s
    /\ contracts[i].status = PendingClientApproval

\* C6: clientApprove(id) succeeds exactly when the record exists, the caller
\* is its client and the status is PendingClientApproval; a successful call
\* sets the status to PendingLawyerFinalConfirmation and clientApprovedAt to
\* the (non-zero) block time, changes nothing else of the record and grants
\* no decryption access.
C6_ClientApprove ==
    [][lastOp'.op = "clientApprove" =>
        (\A s \in Users, i \in Ids :
              \/ /\ (lastOp'.result = "ok") <=> ApproveAllowed(s, i)
                 /\ ApproveAllowed(s, i) =>
                        /\ contracts' = [contracts EXCEPT ![i] =
                               [@ EXCEPT
                                   !.status = PendingLawyerFinalConfirmation,
                                   !.clientApprovedAt = now]]
                        /\ contracts'[i].clientApprovedAt > 0
                        /\ acl' = acl
              \/ ~clientApprove(s, i))]_vars

\* The client has just approved; nobody holds access to the fingerprint.
C6_Witness ==
    /\ lastOp = Receipt("clientApprove", "ok")
    /\ \E i \in Created :
          /\ contracts[i].status = PendingLawyerFinalConfirmation
          /\ contracts[i].clientApprovedAt = now
          /\ ~HoldsAccess(contracts[i].encryptedContent, contracts[i].client)

ConfirmAllowed(s, i) ==
    /\ contracts[i].exists
    /\ contracts[i].lawyer = s
    /\ contracts[i].status = PendingLawyerFinalConfirmation

\* C7: lawyerConfirm(id) succeeds exactly when the record exists, the caller
\* is its lawyer and the status is PendingLawyerFinalConfirmation; a
\* successful call sets the status to Completed and lawyerConfirmedAt to the
\* (non-zero) block time, and in the same step grants access to the record's
\* fingerprint ciphertext to the lawyer and to the client.
C7_LawyerConfirm ==
    [][lastOp'.op = "lawyerConfirm" =>
        (\A s \in Users, i \in Ids :
              \/ /\ (lastOp'.result = "ok") <=> ConfirmAllowed(s, i)
                 /\ ConfirmAllowed(s, i) =>
                        /\ contracts' = [contracts EXCEPT ![i] =
                               [@ EXCEPT !.status = Completed,
                                         !.lawyerConfirmedAt = now]]
                        /\ contracts'[i].lawyerConfirmedAt > 0
                        /\ acl' = acl \cup
                               {<<contracts[i].encryptedContent,
                                  contracts[i].lawyer>>,
                                <<contracts[i].encryptedContent,
                                  contracts[i].client>>}
              \/ ~lawyerConfirm(s, i))]_vars

\* The lawyer has just confirmed and both parties hold access.
C7_Witness ==
    /\ lastOp = Receipt("lawyerConfirm", "ok")
    /\ \E i \in Created :
          /\ contracts[i].status = Completed
          /\ contracts[i].lawyerConfirmedAt = now
          /\ HoldsAccess(contracts[i].encryptedContent, contracts[i].lawyer)
          /\ HoldsAccess(contracts[i].encryptedContent, contracts[i].client)

NotPendingApproval == "Contract not in pending client approval status"
NotPendingConfirmation == "Contract not in pending lawyer confirmation status"

\* C8 as stated: clientApprove on a record that is not in
\* PendingClientApproval, and lawyerConfirm on a record that is not in
\* PendingLawyerFinalConfirmation, revert with the "not in pending ... status"
\* reason for any caller, and leave the ledger unchanged.
C8_InvalidTransitionAnyCaller ==
    [][/\ lastOp'.op = "clientApprove" =>
            (\A s \in Users, i \in Ids :
                (/\ contracts[i].exists
                 /\ contracts[i].status # PendingClientApproval)
                => \/ /\ lastOp'.result = NotPendingApproval
                      /\ UNCHANGED ledger
                   \/ ~clientApprove(s, i))
       /\ lastOp'.op = "lawyerConfirm" =>
            (\A s \in Users, i \in Ids :
                (/\ contracts[i].exists
                 /\ contracts[i].status # PendingLawyerFinalConfirmation)
                => \/ /\ lastOp'.result = NotPendingConfirmation
                      /\ UNCHANGED ledger
                   \/ ~lawyerConfirm(s, i))]_vars

\* C8 as amended: such a call always fails and leaves the ledger unchanged;
\* the reason is the "not in pending ... status" one when the caller is the
\* record's client (for clientApprove) or lawyer (for lawyerConfirm), and
\* "Only client can approve" / "Only lawyer can confirm" for any other
\* caller, because the caller is checked before the status.
C8_InvalidTransition ==
    [][/\ lastOp'.op = "clientApprove" =>
            (\A s \in Users, i \in Ids :
                (/\ contracts[i].exists
                 /\ contracts[i].status # PendingClientApproval)
                => \/ /\ lastOp'.result =
                             IF s = contracts[i].client
                             THEN NotPendingApproval
                             ELSE "Only client can approve"
                      /\ UNCHANGED ledger
                   \/ ~clientApprove(s, i))
       /\ lastOp'.op = "lawyerConfirm" =>
            (\A s \in Users, i \in Ids :
                (/\ contracts[i].exists
                 /\ contracts[i].status # PendingLawyerFinalConfirmation)
                => \/ /\ lastOp'.result =
                             IF s = contracts[i].lawyer
                             THEN NotPendingConfirmation
                             ELSE "Only lawyer can confirm"
                      /\ UNCHANGED ledger
                   \/ ~lawyerConfirm(s, i))]_vars

\* The lawyer tried to confirm a record the client has not approved yet.
C8_Witness ==
    /\ lastOp = Receipt("lawyerConfirm", NotPendingConfirmation)
    /\ \E i \in Created : contracts[i].status = PendingClientApproval
    /\ \A i \in Created : contracts[i].status # PendingLawyerFinalConfirmation

\* C9 as stated: the access list only grows, and only a successful
\* lawyerConfirm changes it; createContract grants nothing.
C9_AclOnlyByConfirm ==
    [][/\ acl \subseteq acl'
       /\ acl' # acl => lastOp' = Receipt("lawyerConfirm", "ok")]_vars

\* C9 as amended: the access list only grows; a grant to any identity other
\* than the vault itself is added only by a successful lawyerConfirm, and
\* the only other change is createContract granting the vault itself
\* (FHE.allowThis) the use of the new ciphertext. clientApprove, failed calls
\* and reads leave the list unchanged.
C9_AclAdditive ==
    [][/\ acl \subseteq acl'
       /\ acl' # acl =>
             \/ lastOp' = Receipt("lawyerConfirm", "ok")
             \/ /\ lastOp'.op = "createContract"
                /\ lastOp'.result = "ok"
                /\ \A g \in acl' \ acl : g[2] = VaultAddr]_vars

\* After a create and an approve only the vault is on the list; the parties
\* are not.
C9_Witness ==
    /\ lastOp = Receipt("clientApprove", "ok")
    /\ acl # {}
    /\ \A g \in acl : g[2] = VaultAddr

\* The toasts of handleDecrypt's checks on the cached entry: the request was
\* turned down before any decryption was tried.
DecryptNotStarted ==
    {"Contract not found", "Contract must be completed to decrypt",
     "Only lawyer or client can decrypt this contract"}

\* C10: once a record has been created with content T, approved by the
\* client and confirmed by the lawyer, a decrypt request for it made by the
\* lawyer or by the client (from a list that shows the record as Completed)
\* puts exactly T on display.
C10_BothDecrypt ==
    (/\ lastOp.op = "handleDecrypt"
     /\ lastOp.result \notin DecryptNotStarted
     /\ contracts[lastOp.retId].status = Completed
     /\ address(lastOp.browser) \in {contracts[lastOp.retId].lawyer,
                                     contracts[lastOp.retId].client})
    => /\ lastOp.result = "ok"
       /\ lastOp.text = docOf[lastOp.retId + 1]

NotFound == "Contract not found"
NotReady == "Contract must be completed to decrypt"
Unauthorized == "Only lawyer or client can decrypt this contract"

\* No list shows decrypted content for a record that is not Completed.
NoPlaintextBeforeCompleted ==
    \A b \in Browsers : \A c \in list[b] :
        c.decryptedContent # NoText => contracts[c.id].status = Completed

NonParty(a, i) == a \notin {contracts[i].lawyer, contracts[i].client}

Compared(b, i) ==
    /\ handleDecryptCheck(b, i) = "ok"
    /\ savedHandle(localStorage[b], i) # NoHandle
    /\ <<savedHandle(localStorage[b], i), address(b)>> \in acl
    /\ hasItem(localStorage[b], textKey(i))
    /\ decryptTextOnce(getItem(localStorage[b], textKey(i)),
                       contractAddress).ok

Recomputed(b, i) ==
    calculateTextHash(
        decryptTextOnce(getItem(localStorage[b], textKey(i)),
                    contractAddress).text)

\* C13: when a decrypt request gets as far as comparing and the fingerprint
\* recomputed from the opened text differs from the decrypted one, the
\* request fails with IntegrityMismatch and no text is put on display; text
\* is put on display only when the two fingerprints are equal.
C13_IntegrityMismatch ==
    [][lastOp'.op = "handleDecrypt" =>
        (\A b \in Browsers, i \in Ids :
            \/ /\ (/\ Compared(b, i)
                    /\ Recomputed(b, i) # savedHandle(localStorage[b], i).value)
                   => /\ lastOp'.result = "IntegrityMismatch"
                      /\ lastOp'.text = NoText
                      /\ list' = list
               /\ lastOp'.text # NoText
                   => /\ Compared(b, i)
                      /\ Recomputed(b, i) =
                             savedHandle(localStorage[b], i).value
                      /\ calculateTextHash(lastOp'.text) = Recomputed(b, i)
            \/ ~handleDecrypt(b, i))]_vars

\* A decrypt request opened a text whose fingerprint is not the decrypted
\* one, and showed nothing.
C13_Witness ==
    /\ lastOp.op = "handleDecrypt"
    /\ lastOp.result = "IntegrityMismatch"
    /\ lastOp.text = NoText

\* C14: in every reachable state, for every record id that exists on the
\* ledger, the sealed text and the handle of that record are in the
\* off-ledger store under the keys of that id.
C14_PayloadBeforeResolvable ==
    \A i \in Created :
        \E b \in Browsers :
            /\ hasItem(localStorage[b], textKey(i))
            /\ hasItem(localStorage[b], handleKey(i))

\* The ContractCreated events logged so far.
CreatedEvents ==
    {<<i, k>> \in Ids \X (1..(3 * MaxContracts)) :
        /\ k <= Len(events[i])
        /\ events[i][k].name = "ContractCreated"}

IdsInOrder ==
    /\ totalContracts \in 0..MaxContracts
    /\ \A i \in Ids : contracts[i].exists <=> i < totalContracts
    /\ \A i \in Created : contracts[i].id = i
    /\ \A i, j \in Created : i # j => contracts[i].id # contracts[j].id
    /\ totalContracts = Cardinality(CreatedEvents)

\* C15: in every reachable state a record exists for exactly the ids
\* 0..totalContracts-1, each record's id field is its key (so ids are
\* unique), totalContracts is the number of successful creates; the counter
\* never decreases, and it grows only by one, in a successful createContract
\* that returns the old counter value as the id. (It holds initially, and a
\* step that leaves records, counter and event log as they were keeps it.)
C15_IdsInOrder ==
    /\ IdsInOrder
    /\ [][\/ UNCHANGED <<contracts, totalContracts, events>>
          \/ /\ IdsInOrder'
             /\ totalContracts' >= totalContracts
             /\ totalContracts' # totalContracts =>
                   /\ totalContracts' = totalContracts + 1
                   /\ lastOp' = [Receipt("createContract", "ok") EXCEPT
                                     !.retId = totalContracts]]_vars

\* Both ids are taken, in order, and the first record has been completed
\* since.
C15_Witness ==
    /\ totalContracts = 2
    /\ contracts[0].id = 0
    /\ contracts[1].id = 1
    /\ contracts[0].status = Completed
    /\ contracts[1].status = PendingClientApproval

\* C16: for every record with id in 0..totalContracts-1, in every reachable
\* state, the lawyer differs from the client and the client is not the zero
\* address.
C16_PartiesDistinct ==
    \A i \in Created :
        /\ contracts[i].lawyer # contracts[i].client
        /\ contracts[i].client # ZeroAddr

\* A record exists and a create naming the caller as the client has just
\* been rejected.
C16_Witness ==
    /\ lastOp = Receipt("createContract",
                        "Lawyer and client cannot be the same")
    /\ totalContracts > 0
    /\ \A i \in Created : contracts[i].lawyer # contracts[i].client

\* C17: once a record exists its id, title, fingerprint ciphertext, lawyer,
\* client and createdAt never change; a successful clientApprove or
\* lawyerConfirm changes nothing of any record but the status and its own
\* timestamp; the fingerprint ciphertext of a record changes only in the
\* successful createContract that brings the record into existence.
C17_FieldsImmutable ==
    [][\/ contracts' = contracts
       \/ \A i \in Ids :
          /\ contracts[i].exists =>
                /\ contracts'[i].id = contracts[i].id
                /\ contracts'[i].title = contracts[i].title
                /\ contracts'[i].encryptedContent =
                       contracts[i].encryptedContent
                /\ contracts'[i].lawyer = contracts[i].lawyer
                /\ contracts'[i].client = contracts[i].client
                /\ contracts'[i].createdAt = contracts[i].createdAt
          /\ (lastOp'.op = "clientApprove" /\ contracts'[i] # contracts[i])
                => contracts'[i] =
                       [contracts[i] EXCEPT
                           !.status = contracts'[i].status,
                           !.clientApprovedAt = contracts'[i].clientApprovedAt]
          /\ (lastOp'.op = "lawyerConfirm" /\ contracts'[i] # contracts[i])
                => contracts'[i] =
                       [contracts[i] EXCEPT
                           !.status = contracts'[i].status,
                           !.lawyerConfirmedAt =
                               contracts'[i].lawyerConfirmedAt]
          /\ contracts'[i].encryptedContent # contracts[i].encryptedContent
                => /\ ~contracts[i].exists
                   /\ contracts'[i].exists
                   /\ lastOp' = [Receipt("createContract", "ok") EXCEPT
                                     !.retId = i]]_vars

\* A record created in one block was confirmed in a later one and still has
\* its title, its ciphertext and its creation time.
C17_Witness ==
    /\ lastOp = Receipt("lawyerConfirm", "ok")
    /\ \E i \in Created :
          /\ contracts[i].status = Completed
          /\ contracts[i].title = "NDA"
          /\ contracts[i].encryptedContent \in Handles
          /\ contracts[i].createdAt = 1
          /\ contracts[i].lawyerConfirmedAt = 2

TimestampsConsistent ==
    \A i \in Created :
        /\ contracts[i].createdAt > 0
        /\ contracts[i].clientApprovedAt # 0
               <=> contracts[i].status >= PendingLawyerFinalConfirmation
        /\ contracts[i].lawyerConfirmedAt # 0
               <=> contracts[i].status = Completed
        /\ contracts[i].clientApprovedAt # 0
               => contracts[i].createdAt <= contracts[i].clientApprovedAt
        /\ contracts[i].lawyerConfirmedAt # 0
               => contracts[i].clientApprovedAt <=
                      contracts[i].lawyerConfirmedAt

\* C18: for every record in every reachable state clientApprovedAt is
\* non-zero exactly when the status is at least
\* PendingLawyerFinalConfirmation, lawyerConfirmedAt is non-zero exactly when
\* the status is Completed, and the set timestamps satisfy createdAt <=
\* clientApprovedAt <= lawyerConfirmedAt; a timestamp that is set never
\* changes. (It holds initially, and a step that leaves records and counter
\* as they were keeps it.)
C18_Timestamps ==
    /\ TimestampsConsistent
    /\ [][\/ UNCHANGED <<contracts, totalContracts>>
          \/ /\ TimestampsConsistent'
             /\ \A i \in Ids :
                   /\ contracts[i].createdAt # 0
                          => contracts'[i].createdAt = contracts[i].createdAt
                   /\ contracts[i].clientApprovedAt # 0
                          => contracts'[i].clientApprovedAt =
                                 contracts[i].clientApprovedAt
                   /\ contracts[i].lawyerConfirmedAt # 0
                          => contracts'[i].lawyerConfirmedAt =
                                 contracts[i].lawyerConfirmedAt]_vars

\* A record created in the first block was approved in the second and waits
\* for the lawyer.
C18_Witness ==
    \E i \in Created :
        /\ contracts[i].status = PendingLawyerFinalConfirmation
        /\ contracts[i].createdAt = 1
        /\ contracts[i].clientApprovedAt = 2
        /\ contracts[i].lawyerConfirmedAt = 0

\* C19: a record that exists keeps existing; a record comes into existence
\* only in a successful createContract (the one that returns its id), never
\* in a clientApprove, a lawyerConfirm or a read.
C19_OnlyCreateOriginates ==
    [][\A i \in Ids :
          /\ contracts[i].exists => contracts'[i].exists
          /\ (~contracts[i].exists /\ contracts'[i].exists)
                => lastOp' = [Receipt("createContract", "ok") EXCEPT
                                 !.retId = i]]_vars

\* The first record is Completed and still there; a confirm for the id that
\* was never created has been turned down and the id still does not exist.
C19_Witness ==
    /\ lastOp = Receipt("lawyerConfirm", "Contract does not exist")
    /\ contracts[0].exists
    /\ contracts[0].status = Completed
    /\ ~contracts[1].exists

ReadOps ==
    {"getContract", "getEncryptedContent", "getClientContracts",
     "getLawyerContracts", "contractExists", "totalContracts"}

\* C20: a call of getContract, getEncryptedContent, getClientContracts,
\* getLawyerContracts, contractExists or totalContracts, whether it answers
\* or reverts, leaves the records, the counter, the per-identity lists, the
\* access grants and the event log as they were.
C20_ReadsChangeNothing ==
    [][lastOp'.op \in ReadOps => UNCHANGED ledger]_vars

\* getContract for an id that does not exist has reverted, while a record
\* waits for the lawyer's confirmation.
C20_Witness ==
    /\ lastOp = Receipt("getContract", "Contract does not exist")
    /\ totalContracts = 1
    /\ contracts[0].status = PendingLawyerFinalConfirmation

\* seq lists exactly the ids of S, each once, in increasing (creation) order.
ListsInOrder(seq, S) ==
    /\ Len(seq) = Cardinality(S)
    /\ {seq[k] : k \in 1..Len(seq)} = S
    /\ \A k \in 1..(Len(seq) - 1) : seq[k] < seq[k + 1]

\* C21: in every reachable state getClientContracts(a) returns exactly the
\* ids of the records whose client is a and getLawyerContracts(a) exactly
\* the ids of the records whose lawyer is a, each id once and in creation
\* order; an address with no records gets the empty list.
C21_ListsByIdentity ==
    \A a \in Addrs :
        /\ ListsInOrder(getClientContractsReturn(a),
                        {i \in Created : contracts[i].client = a})
        /\ ListsInOrder(getLawyerContractsReturn(a),
                        {i \in Created : contracts[i].lawyer = a})
        /\ (\A i \in Created : contracts[i].client # a)
               => getClientContractsReturn(a) = <<>>
        /\ (\A i \in Created : contracts[i].lawyer # a)
               => getLawyerContractsReturn(a) = <<>>

\* Two records exist; the client's list was just read and holds both ids in
\* order, the lawyer has no record as a client.
C21_Witness ==
    /\ lastOp = Receipt("getClientContracts", "ok")
    /\ totalContracts = 2
    /\ getClientContractsReturn(2) = <<0, 1>>
    /\ getLawyerContractsReturn(1) = <<0, 1>>
    /\ getClientContractsReturn(1) = <<>>

EventNames == <<"ContractCreated", "ClientApproved", "LawyerConfirmed">>

\* The events of every id are the first ones of ContractCreated,
\* ClientApproved, LawyerConfirmed, as many as the record has made
\* transitions.
EventsInOrder ==
    \A i \in Ids :
        /\ Len(events[i]) =
               IF contracts[i].exists THEN contracts[i].status + 1 ELSE 0
        /\ \A k \in 1..Len(events[i]) :
               /\ events[i][k].name = EventNames[k]
               /\ events[i][k].id = i

\* C22: for each record id the events are ContractCreated, then
\* ClientApproved, then LawyerConfirmed, each at most once; an event is
\* emitted only by the successful call of its transition, one event per
\* call, and a failed call emits none. (It holds initially, and a step that
\* leaves records and event log as they were keeps it.)
C22_EventsInOrder ==
    /\ EventsInOrder
    /\ [][\/ UNCHANGED <<contracts, events>>
          \/ /\ EventsInOrder'
             /\ events' # events =>
                   /\ lastOp'.result = "ok"
                   /\ \E i \in Ids :
                         /\ Len(events'[i]) = Len(events[i]) + 1
                         /\ SubSeq(events'[i], 1, Len(events[i])) = events[i]
                         /\ \A j \in Ids \ {i} : events'[j] = events[j]
                         /\ lastOp'.op =
                               <<"createContract", "clientApprove",
                                 "lawyerConfirm">>[Len(events'[i])]
             /\ lastOp'.result # "ok" => events' = events]_vars

\* A record has all three events and a further confirm on it has failed.
C22_Witness ==
    /\ lastOp = Receipt("lawyerConfirm", NotPendingConfirmation)
    /\ \E i \in Created :
          /\ Len(events[i]) = 3
          /\ events[i][3].name = "LawyerConfirmed"

\* The reference: from 0, hash = (hash * 31 + c) mod 2^32 for every c of cs,
\* read as a signed number, then |hash| mod (2^31 - 1).
RECURSIVE RefFold(_, _)
RefFold(cs, w) ==
    IF cs = <<>> THEN w
    ELSE LET lo == w.lo * 31 + Head(cs)
         IN  RefFold(Tail(cs), Word(w.hi * 31 + (lo \div 65536), lo))

RefHash(cs) ==
    LET w == RefFold(cs, Word(0, 0))
        u == IF w.hi >= 32768
             THEN [hi |-> 65535 - w.hi, lo |-> 65535 - w.lo]
             ELSE [hi |-> w.hi, lo |-> w.lo - 1]
    IN  \* u is |hash| - 1 (for hash = 0: hi 0, lo -1)
        IF u.hi = 32767 /\ u.lo = 65535 THEN 1
        ELSE IF u.hi = 32767 /\ u.lo = 65534 THEN 0
        ELSE u.hi * 65536 + u.lo + 1

Hashed == lastOp.op = "calculateTextHash"

\* C23 as stated: calculateTextHash(text) is the reference fold over the
\* code points of the text's characters.
C23_HashOfCodePoints ==
    Hashed => lastOp.retId = RefHash(codePoints(lastOp.text))

\* C23: calculateTextHash(text) is the reference fold, from 0
\* hash = (hash * 31 + c) mod 2^32 with two's-complement wrap and then
\* |hash| mod (2^31 - 1), over the UTF-16 code units of the text (a
\* character outside the basic plane counts as its two surrogates).
C23_HashOfCodeUnits ==
    Hashed => lastOp.retId = RefHash(lastOp.text)

\* A text with a character outside the basic plane was hashed: the result is
\* the fold over its two surrogates, not over its code point.
C23_Witness ==
    /\ Hashed
    /\ lastOp.text = <<9, 55357, 56832>>
    /\ codePoints(lastOp.text) = <<9, 128512>>
    /\ lastOp.retId = RefHash(<<9, 55357, 56832>>)
    /\ lastOp.retId # RefHash(<<9, 128512>>)

\* C24: for every text the result of calculateTextHash lies in
\* 0 .. 2^31 - 2, also when the accumulator ends at -2^31.
C24_HashRange ==
    Hashed => lastOp.retId \in 0..2147483646

\* The accumulator of this text ends at -2^31, whose absolute value is 2^31.
C24_Witness ==
    /\ Hashed
    /\ lastOp.text = <<2325, 9, 30, 12, 2>>
    /\ HashFold(lastOp.text, Word(0, 0)) = Word(32768, 0)
    /\ lastOp.retId = 1

\* The blob of a text: salt, then iv, then as many bytes as the text has in
\* UTF-8 and the tag; decryptText takes the salt from bytes 0..15, the iv
\* from bytes 16..27 and the ciphertext and tag from byte 28 on.
BlobLayout(text, str) ==
    \E sa \in Salts, iv \in Ivs :
        LET bytes == atobBytes(str)
        IN  /\ Len(bytes) = SaltLen + IvLen + Len(TextEncode(text)) + TagLen
            /\ slice(bytes, 0, 16) = sa
            /\ slice(bytes, 16, 28) = iv
            /\ slice(bytes, 28, Len(bytes)) =
                   gcmEncrypt(deriveKey(contractAddress, sa), iv,
                              TextEncode(text))

\* C25 as stated: decryptText of what encryptText returned for a plaintext,
\* under the same passphrase, returns that plaintext, and the blob is salt
\* (16 bytes), nonce (12 bytes), ciphertext and tag, in this order.
C25_RoundTrip ==
    [][\/ lastOp'.op # "decryptText"
       \/ \A b \in Creators, i \in Ids :
             \/ ~(Genuine(b, i) /\ openStored(b, i, contractAddress))
             \/ /\ BlobLayout(docOf[i + 1],
                              getItem(localStorage[b], textKey(i)))
                /\ lastOp'.result = "ok"
                /\ lastOp'.text = docOf[i + 1]]_vars

\* A decrypt request for the id gets as far as opening the sealed text.
Opens(b, i) ==
    /\ handleDecryptCheck(b, i) = "ok"
    /\ savedHandle(localStorage[b], i) # NoHandle
    /\ <<savedHandle(localStorage[b], i), address(b)>> \in acl
    /\ hasItem(localStorage[b], textKey(i))

\* The blob under the id differs in exactly one byte from the one encryptText
\* returned for the record's text.
OneByteChanged(b, i) ==
    /\ hasItem(localStorage[b], textKey(i))
    /\ ~Genuine(b, i)
    /\ i < Len(docOf)
    /\ \E sa \in Salts, iv \in Ivs :
          LET bytes == atobBytes(getItem(localStorage[b], textKey(i)))
              sealed == atobBytes(encryptTextOnce(docOf[i + 1],
                                                  contractAddress, sa, iv))
          IN  /\ Len(bytes) = Len(sealed)
              /\ Cardinality({k \in 1..Len(bytes) : bytes[k] # sealed[k]}) = 1

\* C26: decryptText fails and returns no text when one byte of the stored
\* blob (salt, nonce, ciphertext or tag) was changed or the passphrase is
\* another one; a decrypt request for a record whose blob has a changed byte
\* shows no text, and fails with PayloadCorrupted when it gets as far as
\* opening the blob.
C26_Tampered ==
    [][\/ lastOp' = lastOp
       \/ \A b \in Creators, i \in Ids :
             \/ lastOp'.retId # i
             \/ /\ \A pw \in CryptoPasswords :
                      \/ lastOp'.op # "decryptText"
                      \/ ~(pw # contractAddress \/ OneByteChanged(b, i))
                      \/ ~openStored(b, i, pw)
                      \/ /\ lastOp'.result = "OperationError"
                         /\ lastOp'.text = NoText
                /\ \/ lastOp'.op # "handleDecrypt"
                   \/ ~OneByteChanged(b, i)
                   \/ ~handleDecrypt(b, i)
                   \/ /\ lastOp'.text = NoText
                      /\ lastOp'.result # "ok"
                      /\ Opens(b, i) => lastOp'.result = "PayloadCorrupted"
                      /\ list' = list]_vars

\* The record is Completed, one byte of its stored blob was changed and the
\* lawyer's decrypt request has failed with PayloadCorrupted.
C26_Witness ==
    /\ lastOp.op = "handleDecrypt"
    /\ lastOp.result = "PayloadCorrupted"
    /\ lastOp.browser = 1
    /\ contracts[0].status = Completed
    /\ OneByteChanged(1, 0)
    /\ decryptText(getItem(localStorage[1], textKey(0)), contractAddress).ok
           = FALSE

\* What the user is told when nothing is stored for the record: the toast of
\* handleDecrypt when no handle is found, and PayloadMissing of decryptString.
OldContract == "old contract"
PayloadMissingKinds == {OldContract, "PayloadMissing"}

\* The record is Completed, the request passes the checks on the cached
\* entry, and this browser holds neither handle nor sealed text under the id.
NothingUnderId(b, i) ==
    /\ contracts[i].exists
    /\ contracts[i].status = Completed
    /\ handleDecryptCheck(b, i) = "ok"
    /\ ~hasItem(localStorage[b], handleKey(i))
    /\ ~hasItem(localStorage[b], textKey(i))

\* C27 as stated: a decrypt request for a Completed record with no entry
\* under its id in the off-ledger store fails with PayloadMissing and shows
\* no text, and uses nothing that was stored for another record.
C27_PayloadMissing ==
    [][\/ lastOp'.op # "handleDecrypt"
       \/ \A b \in Browsers, i \in Ids :
             \/ ~NothingUnderId(b, i)
             \/ ~handleDecrypt(b, i)
             \/ /\ lastOp'.result \in PayloadMissingKinds
                /\ lastOp'.text = NoText
                /\ savedHandle(localStorage[b], i)
                       \in {NoHandle, contracts[i].encryptedContent}
                /\ localStorage'[b] = localStorage[b]
                      \/ getItem(localStorage'[b], handleKey(i))
                             = contracts[i].encryptedContent]_vars

\* What a decrypt request for the id reports, the outcome and the text put
\* on display, given the result of the checks on the cached entry and the
\* browser's localStorage.
decryptOutcomeOn(check, store, who, i) ==
    LET handle == savedHandle(store, i)
        out == IF check # "ok" THEN Failed(check)
               ELSE IF handle = NoHandle THEN Failed(OldContract)
               ELSE decryptString(adoptPending(store, i), who,
                                  contractAddress, handle, i)
        shown == out.result = "ok" /\ out.text # NoText
    IN  <<IF out.result = "ok" /\ ~shown
          THEN "Failed to decrypt contract" ELSE out.result,
          IF shown THEN out.text ELSE NoText>>

\* What the request reports when made in the browser now.
decryptOutcome(b, i) ==
    decryptOutcomeOn(handleDecryptCheck(b, i), localStorage[b], address(b), i)

\* What it reports when made after the step (on a ledger the step has left
\* as it was).
decryptOutcomeNext(b, i) ==
    decryptOutcomeOn(handleDecryptCheck(b, i)', localStorage'[b],
                     account'[b], i)

C29_RetriedBeforeReported ==
    [][(lastOp'.op = "handleDecrypt" /\ lastOp' # lastOp)
          => lastOp'.result \notin PayloadMissingKinds]_vars

\* The browser's cached entry of the record shows another status than the
\* ledger holds.
Stale(b, i) ==
    \E c \in list[b] : c.id = i /\ c.status # contracts[i].status

\* C30 as stated: after a clientApprove or lawyerConfirm made from the list
\* is confirmed the list is reloaded, so a cached status that differs from
\* the ledger's is eventually replaced by the ledger's, by what the
\* component does by itself.
C30_ListCatchesUp ==
    \A b \in Browsers, i \in Ids : Stale(b, i) ~> ~Stale(b, i)

\* The success effect has just run in the browser: the form was submitting a
\* confirmed creation and is not submitting any more.
EffectRan(b) ==
    /\ createForm[b].isSubmitting
    /\ createForm[b].isSuccess
    /\ ~createForm'[b].isSubmitting
    /\ createForm'[b].isSuccess

\* C31 as stated: when the success effect runs, the pending handle and the
\* pending sealed text are filed under the id the ledger gave to the record
\* just created from that browser (the last one created, as records are
\* created from one browser only), and the pending keys are removed,
\* whatever value of totalContracts the component holds.
C31_FiledUnderOwnId ==
    [][\A b \in Creators :
          EffectRan(b) =>
              localStorage'[b] =
                  movePending(localStorage[b], totalContracts - 1)]_vars

\* The sealed texts encryptText can return for the content of record i.
SealedOf(i) ==
    {encryptTextOnce(docOf[i + 1], contractAddress, sa, iv) :
        sa \in Salts, iv \in Ivs}

\* C32 as stated: in every reachable state, what a browser's localStorage
\* holds under the keys of a record id belongs to that record: the handle is
\* the fingerprint ciphertext the ledger holds for the id, the sealed text
\* an encryption of the content the record was submitted with.
C32_StoredBelongsToId ==
    \A b \in Browsers, i \in Ids :
        /\ hasItem(localStorage[b], handleKey(i))
              => /\ i \in Created
                 /\ getItem(localStorage[b], handleKey(i))
                        = contracts[i].encryptedContent
        /\ hasItem(localStorage[b], textKey(i))
              => /\ i \in Created
                 /\ getItem(localStorage[b], textKey(i)) \in SealedOf(i)

\* No caller's clientApprove or lawyerConfirm on the record would succeed.
Closed(i) ==
    \A s \in Users :
        /\ clientApproveCheck(s, i) # "ok"
        /\ lawyerConfirmCheck(s, i) # "ok"

\* C33: with a client that keeps trying to approve and a lawyer that keeps
\* trying to confirm, every record that exists is eventually Completed; and
\* on a Completed record no clientApprove and no lawyerConfirm succeeds any
\* more, whoever calls.
C33_EventuallyCompleted ==
    \A i \in Ids :
        /\ contracts[i].exists ~> (contracts[i].status = Completed)
        /\ [](contracts[i].status = Completed => Closed(i))

\* Every record has been created and completed, and a further lawyerConfirm
\* of the last one has just been rejected for its status.
C33_Witness ==
    /\ totalContracts = MaxContracts
    /\ \A i \in Created : contracts[i].status = Completed
    /\ lastOp.op = "lawyerConfirm"
    /\ lastOp.result = "Contract not in pending lawyer confirmation status"

\* C34: in every reachable state the status a browser's list holds for a
\* record is at most the record's status on the ledger, and whenever the
\* checks of handleDecrypt pass (a decryption is started) the record is
\* Completed on the ledger and the connected address is its lawyer or its
\* client.
C34_CacheNotAhead ==
    \A b \in Browsers :
        /\ \A c \in list[b] :
              /\ contracts[c.id].exists
              /\ c.status <= contracts[c.id].status
        /\ \A i \in Ids :
              handleDecryptCheck(b, i) = "ok"
                  => /\ contracts[i].exists
                     /\ contracts[i].status = Completed
                     /\ address(b) \in {contracts[i].lawyer,
                                        contracts[i].client}

\* A decryption was started and went through in one browser while the list
\* of another browser still shows the record with a lower status than the
\* ledger holds.
C34_Witness ==
    /\ lastOp.op = "handleDecrypt"
    /\ lastOp.result = "ok"
    /\ contracts[lastOp.retId].status = Completed
    /\ \E b \in Browsers \ {lastOp.browser} :
          \E c \in list[b] :
              c.id = lastOp.retId /\ c.status < contracts[c.id].status

\* The step leaves every record but i as it was, and every grant it adds or
\* removes is a grant on the ciphertext h.
OnlyRecord(i, h) ==
    /\ \A j \in Ids \ {i} : contracts'[j] = contracts[j]
    /\ \A g \in (acl' \ acl) \cup (acl \ acl') : g[1] = h

\* C35: a createContract (the record it creates being i), a clientApprove(i)
\* or a lawyerConfirm(i), accepted or rejected, leaves every other record
\* unchanged in all fields and changes no grant on a ciphertext other than
\* record i's.
C35_RecordsIndependent ==
    [][/\ \A s \in Users, i \in Ids :
             (clientApprove(s, i) \/ lawyerConfirm(s, i))
                 => OnlyRecord(i, contracts[i].encryptedContent)
       /\ \A s \in Initiators, t \in Titles, c \in Counterparties,
             h \in Handles :
             createContract(s, t, c, h) => OnlyRecord(totalContracts, h)]_vars

\* Two records with different ciphertexts exist and a lawyerConfirm has just
\* been accepted.
C35_Witness ==
    /\ totalContracts = 2
    /\ contracts[0].encryptedContent # contracts[1].encryptedContent
    /\ lastOp.op = "lawyerConfirm"
    /\ lastOp.result = "ok"

DoesNotExist == "Contract does not exist"

\* C36: for an id no record was created with (id 0 before the first
\* creation included) getContract, getEncryptedContent, clientApprove and
\* lawyerConfirm fail with 'Contract does not exist' for every caller and
\* leave the ledger as it was, and contractExists returns false.
C36_NeverCreated ==
    /\ [](\A i \in Ids \ Created :
            /\ ~contractExistsReturn(i)
            /\ getContractCheck(i) = DoesNotExist
            /\ \A s \in Users :
                  /\ getEncryptedContentCheck(s, i) = DoesNotExist
                  /\ clientApproveCheck(s, i) = DoesNotExist
                  /\ lawyerConfirmCheck(s, i) = DoesNotExist)
    /\ [][\A i \in Ids \ Created :
             (\/ getContract(i)
              \/ \E s \in Users : \/ getEncryptedContent(s, i)
                                  \/ clientApprove(s, i)
                                  \/ lawyerConfirm(s, i))
                 => /\ lastOp'.result = DoesNotExist
                    /\ UNCHANGED <<ledger, now>>]_vars

\* Before the first creation a clientApprove of id 0 has just been rejected
\* for the missing record.
C36_Witness ==
    /\ totalContracts = 0
    /\ lastOp.op = "clientApprove"
    /\ lastOp.result = DoesNotExist

\* The step is a transaction of the named function reaching the ledger.
Submitted(op) ==
    /\ lastOp'.op = op
    /\ lastOp' # lastOp \/ contracts' # contracts

\* C37: every clientApprove transaction comes from a browser whose list
\* holds the record with status 0 and whose connected address is the cached
\* record's client, and every lawyerConfirm transaction from a browser whose
\* list holds the record with status 1 and whose connected address is the
\* cached record's lawyer; in no other case a transaction reaches the
\* ledger.
C37_SubmitsOnlyWhenDue ==
    [][/\ Submitted("clientApprove") =>
             \E b \in Browsers, i \in Ids :
                 /\ \E c \in list[b] :
                       c.id = i /\ c.status = 0 /\ c.client = address(b)
                 /\ clientApprove(address(b), i)
       /\ Submitted("lawyerConfirm") =>
             \E b \in Browsers, i \in Ids :
                 /\ \E c \in list[b] :
                       c.id = i /\ c.status = 1 /\ c.lawyer = address(b)
                 /\ lawyerConfirm(address(b), i)]_vars

\* An approval submitted from a list that still showed status 0 has just
\* been rejected by the ledger, where the record was past that status.
C37_Witness ==
    /\ lastOp.op = "clientApprove"
    /\ lastOp.result = "Contract not in pending client approval status"
    /\ \E b \in Browsers :
          \E c \in list[b] :
              /\ c.status = 0
              /\ c.client = address(b)
              /\ contracts[c.id].status > 0

\* C38 as stated: after every submit of the create form, whatever its
\* outcome, isSubmitting eventually returns to false (by what the component
\* does by itself), so that the form can be submitted again.
C38_SubmittingEnds ==
    \A b \in Creators :
        createForm[b].isSubmitting ~> ~createForm[b].isSubmitting

\* The cases in which handleSubmit is to do nothing: the wallet is not
\* connected, a field is empty, useFHEVM is not ready, or encryptString
\* returns nothing.
Refused(isConnected, title, clientAddress, content, fhevm, sealed) ==
    \/ ~isConnected
    \/ title = ""
    \/ clientAddress = NoAddress
    \/ content = NoText
    \/ fhevm # "ready"
    \/ ~sealed

\* The step writes to a localStorage or brings a createContract transaction
\* to the ledger.
Wrote ==
    \/ localStorage' # localStorage
    \/ contracts' # contracts
    \/ lastOp' # lastOp /\ lastOp'.op = "createContract"

\* C39: a submit of the form with the wallet not connected, with an empty
\* title, client address or content, with FHEVM initializing or failed, or
\* with encryptString returning nothing writes nothing to localStorage and
\* submits no transaction: no step that writes or submits is such a submit.
C39_RefusedSubmitWritesNothing ==
    [][Wrote =>
          \A b \in Creators, isConnected \in BOOLEAN, f \in FormFields,
             fhevm \in FhevmStates, sealed \in BOOLEAN, signed \in BOOLEAN,
             n \in Nonces, sa \in Salts, iv \in Ivs :
             Refused(isConnected, f[1], f[2], f[3], fhevm, sealed)
                 => ~onSubmit(b, isConnected, f, fhevm, sealed, signed,
                              n, sa, iv)]_vars

\* A submit has just ended because encryptString returned nothing, in a
\* browser whose localStorage holds the items of an earlier record.
C39_Witness ==
    /\ lastOp.op = "handleSubmit"
    /\ lastOp.result = "Failed to encrypt content"
    /\ \E b \in Creators :
          /\ lastOp.browser = b
          /\ hasItem(localStorage[b], textKey(0))
          /\ ~hasItem(localStorage[b], textKey(Pending))

====
